---- MODULE Spec2Model ----
(***************************************************************************)
(* Model of insta-petty: the rate-limited Instagram client                 *)
(* (InstagramClient), the IndexedDB-backed store (InstagramStorage) and    *)
(* the page handlers that drive them (doRefresh, the refresh and           *)
(* save-username click handlers, onLoad).                                  *)
(*                                                                         *)
(* Time is Date.now() in milliseconds; the clock does not go backwards and *)
(* is advanced in steps of 1000 ms.  A network round trip takes at least   *)
(* one clock step.  A handler runs from one await to the next in one step. *)
(*                                                                         *)
(* SpecFetch    one caller making doFetchJson calls one after another;     *)
(*              the server answers 2xx, 4xx or 5xx, or not at all          *)
(* SpecRefresh  the refresh click handler alone; the server answers 2xx,   *)
(*              4xx or 5xx within MaxLatency clock steps                   *)
(* Spec         the page: onLoad, then clicks on the refresh and           *)
(*              save-username buttons; the server answers 2xx or 4xx       *)
(*              within MaxLatency clock steps                              *)
(***************************************************************************)
EXTENDS Integers, Sequences, FiniteSets, TLC

\* ---------------------------------------------------------------- constants
DELAY_FETCH_MIN_MS == 2000
DELAY_FETCH_MAX_MS == 4000
MAX_RETRIES == 5
RETRY_TIMEOUT_MS == 3000
MAX_FETCH_TIMEOUT_MS == 15000

\* ------------------------------------------------------------------- bounds
\* clock steps explored by the fetcher-only specification
MaxTicksFetch == 36
\* clock steps explored by the fetcher specification with fairness
MaxTicksLive == 130
\* clock steps explored by the page specification
MaxTicks == 5
\* clock steps explored by the refresh-only specification
MaxTicksRefresh == 9
\* clock steps within which the server answers a handler's request
MaxLatency == 1
\* doRefresh executions the page can hold at once
MaxRuns == 2
\* clicks on the refresh and save-username buttons
MaxClicks == 2
\* pages of one friendship listing
MaxPages == 2
\* users on one page
MaxPageLen == 1
\* follower ids
MaxId == 2
\* calls made by the storage-only specification
MaxCalls == 2
\* clock steps explored by the storage-only specification
MaxTicksStore == 2
\* length of the lists the storage is called with
MaxListLen == 2
\* calls made, apart from queries, by the storage-queries specification
MaxPuts == 3
\* length of the lists the storage-queries specification stores
MaxStored == 2
\* days that pass in the storage-queries specification
MaxDays == 1
\* length of the lists deduplicateUsers is called with
MaxDedupLen == 3
\* length of response.users in the calls of getFriendshipPage
MaxRespLen == 2

\* Date.now() when the page is loaded: an epoch time, far above any delay
StartTime == DELAY_FETCH_MAX_MS

\* ---------------------------------------------------------------- processes
\* the caller of the fetcher-only specification
CallerP == <<"caller", 0>>
\* the save-username click handler
SaveP == <<"save", 0>>
\* onLoad
LoadP == <<"load", 0>>
\* executions of the refresh click handler
Runs == {<<"refresh", i>> : i \in 1..MaxRuns}

Procs == Runs \cup {SaveP, LoadP, CallerP}

\* --------------------------------------------------------------------- data
\* models.ts User: fullName travels with username and is left out
Names == {"a", "b"}
Users == [id : 1..MaxId, username : Names]

\* an element of response.users without the id key / without the username key
NoIdElem == [id |-> 0, username |-> "a"]
NoNameElem == [id |-> 1, username |-> "(absent)"]
Elems == Users \cup {NoIdElem, NoNameElem}
\* the elements the server puts on the pages of a listing
PageElems == {e \in Elems : e.username = "a" /\ e.id <= 1}

\* accounts that can be tracked, and the value of the ds_user_id cookie
AccountIds == {"u1", "u2"}
AccountNames == {"n1"}
CookieUserId == "u1"

\* a record under the key 'current', or no such record
Absent == [has |-> FALSE, val |-> <<>>]
Present(list) == [has |-> TRUE, val |-> list]

SeqsUpTo(S, n) == UNION {[1..k -> S] : k \in 0..n}

VARIABLES
    now,            \* Date.now()
    lastFetchTime,  \* InstagramClient.lastFetchTime
    fetch,          \* per caller: the doFetchJson invocation it is awaiting
    server,         \* the HTTP statuses the server answers with
    dispatched,     \* history: time of the most recent fetch() dispatch, -1 if none
    cookie,         \* the ds_user_id cookie exists
    kv,             \* browser.storage.local: lastError, userName, customUserId
    db,             \* IndexedDB 'insta-petty': the four object stores
    pc,             \* per handler execution: the await it is suspended at
    run,            \* per doRefresh execution: its local variables
    save,           \* the save-username handler's local variables
    btn,            \* the disabled flags of the refresh and save buttons
    hist,           \* history: rows written, clicks made
    call            \* a call of a pure function: its argument and its result

fvars == <<lastFetchTime, fetch, dispatched>>
pvars == <<cookie, server, kv, db, pc, run, save, btn, hist, call>>
vars == <<now, lastFetchTime, fetch, server, dispatched, cookie, kv, db, pc, run, save, btn, hist, call>>

\* -------------------------------------------------------- doFetchJson model
\* getRandomBetween(min, max) = Math.random() * (max - min) + min, in [min, max)
getRandomBetween(min, max) == {d \in min..(max - 1) : d % 1000 = 0}

\* a request: endpoint, user id (or username) and max_id (0: none)
NoUrl == [ep |-> "none", user |-> "", cursor |-> 0]

\* what a call returns or throws: the parsed JSON, or an error of some kind;
\* the HTTP error names the status and the body text
NoOut == [k |-> "none", status |-> 0, body |-> "", val |-> [t |-> "none"]]

\* a doFetchJson invocation: where it stands (st), its url and count, the
\* value of its local `now` while it sleeps (at), the time its timer fires
\* (wake), the time its request was dispatched (sent) and what it returned or
\* threw (out); status and body of the last answer and the number of requests
\* dispatched so far (sends) are history
IdleFetch ==
    [st |-> "idle", url |-> NoUrl, count |-> 0, at |-> 0, wake |-> 0,
     sent |-> 0, status |-> 0, body |-> "", sends |-> 0, out |-> NoOut]

\* let count = MAX_RETRIES; while (true) ...
NewCall(url) ==
    [IdleFetch EXCEPT !.st = "start", !.url = url, !.count = MAX_RETRIES]

\* HTTP statuses the server answers with
Statuses == {200, 404, 500}
\* a server that is never in trouble
PageStatuses == {200, 404}

\* raw body texts of a non-2xx answer
Bodies == {"b1", "b2"}

\* response.ok
ResponseOk(status) == status >= 200 /\ status <= 299

CanRetryOffByOne(count) == count >= 0
\* "... && count > 0"
CanRetry(count) == count > 0

RetryableStatusAny(status) == status >= 400
\* "status >= 500"
RetryableStatus(status) == status >= 500

\* friendship pages: users (or no users key), has_more, next_max_id (0: empty
\* or absent); the listing ends within MaxPages pages
PagePayloads(url) ==
    {[t |-> "page", hasUsers |-> FALSE, users |-> <<>>, has_more |-> FALSE,
      next_max_id |-> 0]}
    \cup
    {[t |-> "page", hasUsers |-> TRUE, users |-> us, has_more |-> hm,
      next_max_id |-> nx] :
        us \in SeqsUpTo(PageElems, MaxPageLen), hm \in BOOLEAN,
        nx \in {0} \cup {c \in {url.cursor + 1} : c < MaxPages}}

\* JSON bodies of a 2xx answer, by request
Payloads(url) ==
    IF url.ep = "info"
    THEN {[t |-> "info", username |-> n] : n \in AccountNames \cup {""}}
    ELSE IF url.ep = "profile"
    THEN {[t |-> "profile", id |-> i] : i \in AccountIds \cup {""}}
    ELSE {pl \in PagePayloads(url) : pl.has_more \/ pl.next_max_id = 0}

\* this.lastFetchTime = now; response = await fetch(url, ...)
Dispatch(p, f, at) ==
    /\ lastFetchTime' = at
    /\ fetch' = [fetch EXCEPT ![p] =
                    [f EXCEPT !.st = "inflight", !.sent = now, !.at = 0,
                              !.wake = 0, !.sends = f.sends + 1, !.status = 0,
                              !.body = ""]]
    /\ dispatched' = now

\* the head of the while loop, run in the same turn as the call or the
\* retry: compute the delay, then sleep, or dispatch at once
LoopHead(p, f) ==
    \E nextFetchDelay \in getRandomBetween(DELAY_FETCH_MIN_MS, DELAY_FETCH_MAX_MS) :
       LET toSleep == lastFetchTime + nextFetchDelay - now IN
       IF toSleep > 0
       THEN /\ fetch' = [fetch EXCEPT ![p] =
                            [f EXCEPT !.st = "sleep", !.at = now,
                                      !.wake = now + toSleep]]
            /\ UNCHANGED <<lastFetchTime, dispatched>>
       ELSE Dispatch(p, f, now)

\* a handler calls client.doFetchJson(url)
BeginFetch(p, url) == LoopHead(p, NewCall(url))

\* await sleep(toSleep) is over: lastFetchTime = now (the value read before
\* the sleep), then fetch()
FetchWake(p) ==
    /\ fetch[p].st = "sleep"
    /\ now >= fetch[p].wake
    /\ Dispatch(p, fetch[p], fetch[p].at)
    /\ UNCHANGED now

\* doFetchJson throws
Thrown(f, kind, status, body) ==
    [f EXCEPT !.st = "err", !.sent = 0,
              !.out = [NoOut EXCEPT !.k = kind, !.status = status, !.body = body]]

\* await sleep(RETRY_TIMEOUT_MS) begins
Backoff(f) ==
    [f EXCEPT !.st = "backoff", !.sent = 0, !.wake = now + RETRY_TIMEOUT_MS]

\* catch (error): a TimeoutError is retried while count > 0, anything else
\* is rethrown
Caught(f, kind) ==
    IF kind = "timeout" /\ CanRetry(f.count)
    THEN Backoff(f)
    ELSE Thrown(f, kind, 0, "")

\* a non-2xx answer: retried when status >= 500 && count > 0, else
\* responseText = await response.text() and the HTTP error is thrown; when
\* reading the text fails, that failure is thrown (outside the try block)
NotOk(f, timedOut) ==
    IF RetryableStatus(f.status) /\ CanRetry(f.count)
    THEN Backoff(f)
    ELSE IF timedOut
    THEN Thrown(f, "timeout", 0, "")
    ELSE Thrown(f, "http", f.status, f.body)

\* reading the body of an answer fails
BodyLost(f) ==
    IF ResponseOk(f.status)
    THEN Caught(f, "network")
    ELSE IF RetryableStatus(f.status) /\ CanRetry(f.count)
    THEN Backoff(f)
    ELSE Thrown(f, "network", 0, "")

\* a 2xx answer: return await response.json(), inside the try block
Ok(f, timedOut) ==
    IF timedOut
    THEN {Caught(f, "timeout")}
    ELSE {[f EXCEPT !.st = "ok", !.sent = 0,
                    !.out = [NoOut EXCEPT !.k = "json", !.val = val]] :
             val \in Payloads(f.url)}
         \cup {Caught(f, "syntax")}

\* the AbortSignal.timeout(MAX_FETCH_TIMEOUT_MS) of the request has fired
TimedOut(f) == now >= f.sent + MAX_FETCH_TIMEOUT_MS

\* the call after the answer (status, body) has arrived
Answered(f, status, body) == [f EXCEPT !.status = status, !.body = body]

\* every way the request of call f can end at this moment: no answer (a
\* network failure or the timeout), or an answer whose body arrives, or is
\* lost, or is cut off by the timeout
Respond(f, statuses) ==
    {Caught(f, IF TimedOut(f) THEN "timeout" ELSE "network")}
    \cup UNION {IF ResponseOk(status)
                THEN Ok(Answered(f, status, ""), TimedOut(f))
                ELSE {NotOk(Answered(f, status, body), TimedOut(f)) :
                         body \in Bodies}
                     \cup {BodyLost(Answered(f, status, body)) : body \in Bodies}
                : status \in statuses}

Settled(f) == f.st \in {"ok", "err"}

\* the request of p's call ends; a network round trip takes time
FetchRespond(p) ==
    /\ fetch[p].st = "inflight"
    /\ now > fetch[p].sent
    /\ \E f \in Respond(fetch[p], server) : fetch' = [fetch EXCEPT ![p] = f]
    /\ UNCHANGED <<now, lastFetchTime, dispatched>>

\* the ways the request of a handler's call can end
Settlements(p) ==
    IF fetch[p].st = "inflight" /\ now > fetch[p].sent
    THEN {f \in Respond(fetch[p], server) : Settled(f)}
    ELSE {}

CountKept(count) == count
\* count--
CountDown(count) == count - 1

\* await sleep(RETRY_TIMEOUT_MS); count--; continue
FetchRetry(p) ==
    /\ fetch[p].st = "backoff"
    /\ now >= fetch[p].wake
    /\ LoopHead(p, [fetch[p] EXCEPT !.count = CountDown(@), !.wake = 0])
    /\ UNCHANGED now

\* time passes
Tick(limit) ==
    /\ now + 1000 <= StartTime + 1000 * limit
    /\ now' = now + 1000
    /\ UNCHANGED fvars
    /\ UNCHANGED pvars

\* ------------------------------------------------------------ initial state
EmptyDb ==
    [followers |-> Absent, following |-> Absent, followers_history |-> {},
     counts_history |-> {}]

\* the locals of one doRefresh; dbBefore is history: the four stores as they
\* were when the cycle started
NoRun ==
    [userId |-> "", username |-> "", refreshTime |-> 0, followers |-> <<>>, following |-> <<>>,
     last |-> FALSE, prevFollowers |-> <<>>, txFollowers |-> Absent,
     txHistory |-> {}, pages |-> <<>>, dbBefore |-> EmptyDb]

\* history: a page of the listing being enumerated, with the max_id it was
\* requested with
GotPage(f, page) ==
    [cursor |-> f.url.cursor, users |-> page.users, nextMaxId |-> page.nextMaxId]

NoSave == [username |-> "", userId |-> ""]

\* a call of a pure function: its name, where it stands (st), its argument,
\* its result, and the result of calling it again with that result
NoCall == [fn |-> "none", st |-> "none", arg |-> <<>>, res |-> <<>>, res2 |-> <<>>]

InitCommon ==
    /\ now = StartTime
    /\ lastFetchTime = 0
    /\ fetch = [p \in Procs |-> IdleFetch]
    /\ dispatched = -1
    /\ kv = [lastError |-> <<>>, userName |-> "", customUserId |-> ""]
    /\ db = EmptyDb
    /\ run = [r \in Runs |-> NoRun]
    /\ save = NoSave
    /\ btn = [refresh |-> FALSE, save |-> FALSE]
    /\ hist = [clicks |-> 0, saves |-> 0, lastDelta |-> -1, lastCounts |-> -1,
               nDelta |-> 0, nCounts |-> 0, followers |-> "none",
               following |-> "none", calls |-> 0, dataFor |-> {}]

\* ------------------------------------------------------------------ errors
\* an Error and its chain of causes, outermost first; getErrorMessage joins
\* the messages of the chain
Msg(m) == [msg |-> m, status |-> 0, body |-> ""]

\* what doFetchJson throws: `Got HTTP status ${status} for ${url}, body:
\* ${responseText}`, or the error fetch() rejected with
FetchError(out) == <<[msg |-> out.k, status |-> out.status, body |-> out.body]>>

\* messages.join(': '): the messages of the chain, in order
getErrorMessage(error) == [i \in 1..Len(error) |-> error[i].msg]

\* ------------------------------------------------------------------- utils
deduplicateUsersKeepLast(users) ==
    LET result[i \in 0..Len(users)] ==
            IF i = 0 THEN <<>>
            ELSE IF \E j \in 1..Len(result[i - 1]) : result[i - 1][j].id = users[i].id
                 THEN [j \in 1..Len(result[i - 1]) |->
                          IF result[i - 1][j].id = users[i].id
                          THEN users[i] ELSE result[i - 1][j]]
                 ELSE Append(result[i - 1], users[i])
    IN result[Len(users)]
deduplicateUsersSkipped(users) == users
\* deduplicateUsers: keep the first entry of every id
deduplicateUsers(users) ==
    LET result[i \in 0..Len(users)] ==
            IF i = 0 THEN <<>>
            ELSE IF \E j \in 1..Len(result[i - 1]) : result[i - 1][j].id = users[i].id
                 THEN result[i - 1]
                 ELSE Append(result[i - 1], users[i])
    IN result[Len(users)]

IdsOf(users) == {users[i].id : i \in 1..Len(users)}

\* no two entries of a list have the same id
NoDuplicateIds(users) ==
    \A i, j \in 1..Len(users) : users[i].id = users[j].id => i = j

\* followers.push(...page.users), page after page
Pushed(pages) ==
    LET all[i \in 0..Len(pages)] ==
            IF i = 0 THEN <<>> ELSE all[i - 1] \o pages[i].users
    IN all[Len(pages)]

\* the users of a list
ElemsOf(users) == {users[i] : i \in 1..Len(users)}

\* ------------------------------------------------------- InstagramClient
\* getUserId: the cookie's value, or 'You need to log in ...'
getUserId ==
    IF cookie
    THEN [ok |-> TRUE, val |-> CookieUserId, err |-> <<>>]
    ELSE [ok |-> FALSE, val |-> "",
          err |-> <<Msg("Getting user id failed"), Msg("You need to log in")>>]

InfoUrl(userId) == [ep |-> "info", user |-> userId, cursor |-> 0]
ProfileUrl(username) == [ep |-> "profile", user |-> username, cursor |-> 0]
FriendshipUrl(userId, friendshipType, maxId) ==
    [ep |-> friendshipType, user |-> userId, cursor |-> maxId]

\* getUsername, once its doFetchJson call f has settled
getUsername(f) ==
    IF f.st = "ok"
    THEN IF f.out.val.username # ""
         THEN [ok |-> TRUE, val |-> f.out.val.username, err |-> <<>>]
         ELSE [ok |-> FALSE, val |-> "",
               err |-> <<Msg("Getting username failed"), Msg("unknown answer")>>]
    ELSE [ok |-> FALSE, val |-> "",
          err |-> <<Msg("Getting username failed")>> \o FetchError(f.out)]

\* getUserIdFromUsername, once its doFetchJson call f has settled
getUserIdFromUsername(f) ==
    IF f.st = "ok"
    THEN IF f.out.val.id # ""
         THEN [ok |-> TRUE, val |-> f.out.val.id, err |-> <<>>]
         ELSE [ok |-> FALSE, val |-> "",
               err |-> <<Msg("Getting user ID for username failed"),
                         Msg("unexpected response structure")>>]
    ELSE [ok |-> FALSE, val |-> "",
          err |-> <<Msg("Getting user ID for username failed")>> \o FetchError(f.out)]

PageFailed(friendshipType, cause) ==
    [ok |-> FALSE, users |-> <<>>, nextMaxId |-> 0,
     err |-> <<Msg("Fetching " \o friendshipType \o " failed")>> \o cause]

MalformedUserWithoutId(user) == user = NoIdElem
\* !('username' in user) || !('id' in user)
MalformedUser(user) == user = NoNameElem \/ user = NoIdElem

EmptyNextMaxIdAccepted(response) == FALSE
\* response.has_more === true and !response.next_max_id
EmptyNextMaxId(response) == response.has_more /\ response.next_max_id = 0

\* getFriendshipPage, once its doFetchJson call f has settled
getFriendshipPage(f, friendshipType) ==
    IF f.st # "ok" THEN PageFailed(friendshipType, FetchError(f.out))
    ELSE LET response == f.out.val IN
         IF ~response.hasUsers
         THEN PageFailed(friendshipType, <<Msg("no users field")>>)
         ELSE IF \E i \in 1..Len(response.users) : MalformedUser(response.users[i])
         THEN PageFailed(friendshipType, <<Msg("malformed users")>>)
         ELSE IF EmptyNextMaxId(response)
         THEN PageFailed(friendshipType, <<Msg("Empty nextMaxId, while hasMore is true")>>)
         ELSE [ok |-> TRUE, users |-> response.users,
               nextMaxId |-> IF response.has_more THEN response.next_max_id ELSE 0,
               err |-> <<>>]

\* ------------------------------------------------------ InstagramStorage
PutSingleRow(table, row) == {row}
\* IDBObjectStore.put on a store with keyPath 'time': insert or replace
Put(table, row) == {x \in table : x.time # row.time} \cup {row}

\* readwrite transactions whose scopes overlap run one after the other
FollowersTxActive(r) == pc[r] \in {"tx_putFollowers", "tx_putHistory", "tx_done"}
ClearTxActive == pc[SaveP] = "clearing"

HistoryEntryByUsername(prevFollowers, followers, time) ==
    LET prevNames == {prevFollowers[i].username : i \in 1..Len(prevFollowers)}
        newNames == {followers[i].username : i \in 1..Len(followers)}
    IN [time |-> time,
        added |-> SelectSeq(followers, LAMBDA user : user.username \notin prevNames),
        removed |-> SelectSeq(prevFollowers, LAMBDA user : user.username \notin newNames)]
HistoryEntryRemovedNotInPrev(prevFollowers, followers, time) ==
    LET prevIds == IdsOf(prevFollowers)
    IN [time |-> time,
        added |-> SelectSeq(followers, LAMBDA user : user.id \notin prevIds),
        removed |-> SelectSeq(prevFollowers, LAMBDA user : user.id \notin prevIds)]
HistoryEntryNothingRemoved(prevFollowers, followers, time) ==
    LET prevIds == IdsOf(prevFollowers)
    IN [time |-> time,
        added |-> SelectSeq(followers, LAMBDA user : user.id \notin prevIds),
        removed |-> <<>>]
\* the history entry of putFollowersAndUpdateHistory
HistoryEntry(prevFollowers, followers, time) ==
    LET prevIds == IdsOf(prevFollowers)
        newIds == IdsOf(followers)
    IN [time |-> time,
        added |-> SelectSeq(followers, LAMBDA user : user.id \notin prevIds),
        removed |-> SelectSeq(prevFollowers, LAMBDA user : user.id \notin newIds)]

FollowersPutOutsideTx(d, followers) ==
    [db |-> [d EXCEPT !.followers = Present(followers)], tx |-> Present(followers)]
\* await followersStore.put(followers, 'current'): a write of the transaction
FollowersPut(d, followers) == [db |-> d, tx |-> Present(followers)]

StorageFailed(what) == <<Msg(what), Msg("storage error")>>

clearAllDataButCounts(d) ==
    [followers |-> Absent, following |-> Absent, followers_history |-> {},
     counts_history |-> d.counts_history]
\* clearAllData() as a whole, its transaction committed: clear() on each of
\* the four stores
clearAllData(d) ==
    [followers |-> Absent, following |-> Absent, followers_history |-> {},
     counts_history |-> {}]

putFollowersThenGetPrevious(d, followers, time) ==
    [d EXCEPT !.followers = Present(followers),
              !.followers_history = Put(@, HistoryEntry(followers, followers, time))]
\* putFollowersAndUpdateHistory(followers, time) as a whole, its transaction
\* committed: the database it leaves
putFollowersAndUpdateHistory(d, followers, time) ==
    LET prevFollowers == d.followers.val
    IN [d EXCEPT !.followers = Present(followers),
                 !.followers_history =
                     Put(@, HistoryEntry(prevFollowers, followers, time))]

\* a cursor over a store with keyPath 'time': its rows in ascending key order
RECURSIVE Ascending(_)
Ascending(table) ==
    IF table = {} THEN <<>>
    ELSE LET first == CHOOSE x \in table : \A y \in table : x.time <= y.time
         IN <<first>> \o Ascending(table \ {first})

\* getFollowersDelta: 24 * 3600 * 1000
MS_PER_DAY == 24 * 3600 * 1000

InRangeOpen(time, cutoff) == time > cutoff
\* IDBKeyRange.lowerBound(cutoff)
InRange(time, cutoff) == time >= cutoff

\* getFollowersDelta(deltaDays) called at Date.now() = time: the lengths of
\* added and removed summed over the rows the cursor visits
getFollowersDelta(d, deltaDays, time) ==
    LET cutoff == time - deltaDays * MS_PER_DAY
        rows == Ascending({e \in d.followers_history : InRange(e.time, cutoff)})
        total[i \in 0..Len(rows)] ==
            IF i = 0 THEN [added |-> 0, removed |-> 0]
            ELSE [added |-> total[i - 1].added + Len(rows[i].added),
                  removed |-> total[i - 1].removed + Len(rows[i].removed)]
    IN total[Len(rows)]

\* openCursor(null, 'prev'): the rows in descending key order
CursorPrev(table) ==
    LET rows == Ascending(table)
    IN [i \in 1..Len(rows) |-> rows[Len(rows) + 1 - i]]

WithinCountOrAt(count, maxEntries) == count <= maxEntries
\* while (cursor && count < maxEntries)
WithinCount(count, maxEntries) == count < maxEntries

\* getFollowersHistory(maxEntries): the rows pushed while the cursor has a
\* row and count < maxEntries
getFollowersHistory(d, maxEntries) ==
    LET rows == CursorPrev(d.followers_history)
        entries[i \in 0..Len(rows)] ==
            IF i = 0 THEN <<>>
            ELSE IF WithinCount(i - 1, maxEntries)
                 THEN Append(entries[i - 1], rows[i])
                 ELSE entries[i - 1]
    IN entries[Len(rows)]

\* putCounts(countHistory): db.put('counts_history', countHistory)
putCounts(d, countHistory) ==
    [d EXCEPT !.counts_history = Put(@, countHistory)]

getLatestCountsOldest(d) ==
    LET rows == Ascending(d.counts_history)
    IN IF rows = <<>>
       THEN [has |-> FALSE, val |-> <<>>]
       ELSE [has |-> TRUE, val |-> rows[1]]
\* getLatestCounts(): the value at the cursor opened with 'prev', or null
getLatestCounts(d) ==
    LET rows == CursorPrev(d.counts_history)
    IN IF rows = <<>>
       THEN [has |-> FALSE, val |-> <<>>]
       ELSE [has |-> TRUE, val |-> rows[1]]

putFollowingAsFollowers(d, following) ==
    [d EXCEPT !.followers = Present(following)]
\* putFollowing(following) as a whole, its transaction committed:
\* tx.store.put(following, 'current') on the store 'following'
putFollowing(d, following) == [d EXCEPT !.following = Present(following)]

\* ------------------------------------------------------------- doRefresh
RefreshTimeAtLoad(t) == StartTime
\* const refreshTime = Date.now()
RefreshTime(t) == t

\* the user clicks once `await onLoad()` has returned
Loaded == pc[LoadP] = "idle"

ClickableAlways(disabled) == TRUE
\* a click event is delivered to a button that is not disabled
Clickable(disabled) == ~disabled

RefreshLeftEnabled == FALSE
\* refreshBtn.disabled = true
RefreshDisabled == TRUE

BreakAlways(page) == TRUE
\* if (!page.nextMaxId) break
LastPage(page) == page.nextMaxId = 0

NextMaxIdKept(page) == 0
\* maxId = page.nextMaxId
NextMaxId(page) == page.nextMaxId

\* catch (error): await storage.putLastError(getErrorMessage(error))
Fail(r, error) ==
    /\ kv' = [kv EXCEPT !.lastError = getErrorMessage(error)]
    /\ pc' = [pc EXCEPT ![r] = "refreshUi"]
    /\ run' = [run EXCEPT ![r] = NoRun]
    /\ fetch' = [fetch EXCEPT ![r] = IdleFetch]
    /\ UNCHANGED <<lastFetchTime, dispatched>>

\* the click handler up to its first await: disable the button, take the
\* refresh time, ask for the custom user id
RefreshClick(r) ==
    /\ Clickable(btn.refresh)
    /\ Loaded
    /\ hist.clicks + hist.saves < MaxClicks
    /\ pc[r] = "idle"
    /\ \A q \in Runs : q[2] < r[2] => pc[q] # "idle"
    /\ btn' = [btn EXCEPT !.refresh = RefreshDisabled]
    /\ run' = [run EXCEPT ![r] = [NoRun EXCEPT !.refreshTime = RefreshTime(now),
                                               !.dbBefore = db]]
    /\ pc' = [pc EXCEPT ![r] = "getCustomUserId"]
    /\ hist' = [hist EXCEPT !.clicks = @ + 1]
    /\ UNCHANGED <<now, fvars, cookie, server, call, kv, db, save>>

\* const customUserId = await storage.getCustomUserId(); with a custom id
\* client.getUsername(userId) is called, else client.getUserId()
GetCustomUserId(r) ==
    /\ pc[r] = "getCustomUserId"
    /\ IF kv.customUserId # ""
       THEN /\ run' = [run EXCEPT ![r].userId = kv.customUserId]
            /\ BeginFetch(r, InfoUrl(kv.customUserId))
            /\ pc' = [pc EXCEPT ![r] = "getUsername"]
       ELSE /\ pc' = [pc EXCEPT ![r] = "getUserId"]
            /\ UNCHANGED <<run, fvars>>
    /\ UNCHANGED <<now, cookie, server, call, kv, db, save, btn, hist>>

\* userId = await client.getUserId(); client.getUsername(userId) is called
GetUserId(r) ==
    /\ pc[r] = "getUserId"
    /\ IF getUserId.ok
       THEN /\ run' = [run EXCEPT ![r].userId = getUserId.val]
            /\ BeginFetch(r, InfoUrl(getUserId.val))
            /\ pc' = [pc EXCEPT ![r] = "getUsername"]
            /\ UNCHANGED kv
       ELSE Fail(r, getUserId.err)
    /\ UNCHANGED <<now, cookie, server, call, db, save, btn, hist>>

\* const username = await client.getUsername(userId);
\* storage.putUsername(username) is called
GotUsername(r) ==
    /\ pc[r] = "getUsername"
    /\ \E f \in Settlements(r) :
          LET res == getUsername(f) IN
          IF res.ok
          THEN /\ run' = [run EXCEPT ![r].username = res.val]
               /\ pc' = [pc EXCEPT ![r] = "putUsername"]
               /\ fetch' = [fetch EXCEPT ![r] = IdleFetch]
               /\ UNCHANGED <<kv, lastFetchTime, dispatched>>
          ELSE Fail(r, res.err)
    /\ UNCHANGED <<now, cookie, server, call, db, save, btn, hist>>

\* await storage.putUsername(username); the first followers page is requested
PutRunUsername(r) ==
    /\ pc[r] = "putUsername"
    /\ kv' = [kv EXCEPT !.userName = run[r].username]
    /\ run' = [run EXCEPT ![r].username = ""]
    /\ BeginFetch(r, FriendshipUrl(run[r].userId, "followers", 0))
    /\ pc' = [pc EXCEPT ![r] = "followers"]
    /\ UNCHANGED <<now, cookie, server, call, db, save, btn, hist>>

\* one turn of the followers loop; after the last page
\* followers = deduplicateUsers(followers) and
\* storage.putFollowersAndUpdateHistory(followers, refreshTime) is called
GotFollowersPage(r) ==
    /\ pc[r] = "followers"
    /\ \E f \in Settlements(r) :
          LET page == getFriendshipPage(f, "followers")
              followers == run[r].followers \o page.users
          IN
          IF ~page.ok THEN Fail(r, page.err)
          ELSE IF LastPage(page)
          THEN /\ run' = [run EXCEPT ![r].followers = deduplicateUsers(followers),
                                     ![r].last = ~f.out.val.has_more,
                                     ![r].pages = Append(@, GotPage(f, page))]
               /\ fetch' = [fetch EXCEPT ![r] = IdleFetch]
               /\ pc' = [pc EXCEPT ![r] = "tx_get"]
               /\ UNCHANGED <<kv, lastFetchTime, dispatched>>
          ELSE /\ run' = [run EXCEPT ![r].followers = followers,
                                     ![r].pages = Append(@, GotPage(f, page))]
               /\ BeginFetch(r, FriendshipUrl(run[r].userId, "followers",
                                              NextMaxId(page)))
               /\ UNCHANGED <<pc, kv>>
    /\ UNCHANGED <<now, cookie, server, call, db, save, btn, hist>>

\* putFollowersAndUpdateHistory: the transaction starts,
\* prevFollowers = (await followersStore.get('current')) || []
TxGet(r) ==
    /\ pc[r] = "tx_get"
    /\ ~ClearTxActive
    /\ \/ /\ run' = [run EXCEPT ![r].prevFollowers = db.followers.val]
          /\ pc' = [pc EXCEPT ![r] = "tx_putFollowers"]
          /\ UNCHANGED <<kv, fvars>>
       \/ Fail(r, StorageFailed("Storing followers failed"))
    /\ UNCHANGED <<now, cookie, server, call, db, save, btn, hist>>

\* await followersStore.put(followers, 'current')
TxPutFollowers(r) ==
    /\ pc[r] = "tx_putFollowers"
    /\ \/ /\ LET put == FollowersPut(db, run[r].followers) IN
             /\ db' = put.db
             /\ run' = [run EXCEPT ![r].txFollowers = put.tx]
          /\ pc' = [pc EXCEPT ![r] = "tx_putHistory"]
          /\ UNCHANGED <<kv, fvars>>
       \/ /\ Fail(r, StorageFailed("Storing followers failed"))
          /\ UNCHANGED db
    /\ UNCHANGED <<now, cookie, server, call, save, btn, hist>>

\* await historyStore.put(historyEntry)
TxPutHistory(r) ==
    /\ pc[r] = "tx_putHistory"
    /\ \/ /\ run' = [run EXCEPT ![r].txHistory =
                        {HistoryEntry(run[r].prevFollowers, run[r].followers,
                                      run[r].refreshTime)}]
          /\ pc' = [pc EXCEPT ![r] = "tx_done"]
          /\ UNCHANGED <<kv, fvars>>
       \/ Fail(r, StorageFailed("Storing followers failed"))
    /\ UNCHANGED <<now, cookie, server, call, db, save, btn, hist>>

\* await tx.done: both writes are committed, or the transaction is aborted;
\* then the first following page is requested
TxDone(r) ==
    /\ pc[r] = "tx_done"
    /\ \/ /\ db' = [db EXCEPT
                      !.followers = run[r].txFollowers,
                      !.followers_history =
                          Put(@, CHOOSE e \in run[r].txHistory : TRUE)]
          /\ hist' = [hist EXCEPT
                        !.lastDelta = run[r].refreshTime,
                        !.nDelta = @ + 1,
                        !.followers = IF run[r].last THEN "full" ELSE "partial",
                        !.dataFor = @ \cup {run[r].userId}]
          /\ run' = [run EXCEPT ![r].prevFollowers = <<>>,
                                ![r].txFollowers = Absent,
                                ![r].txHistory = {}, ![r].last = FALSE,
                                ![r].pages = <<>>]
          /\ BeginFetch(r, FriendshipUrl(run[r].userId, "following", 0))
          /\ pc' = [pc EXCEPT ![r] = "following"]
          /\ UNCHANGED kv
       \/ /\ Fail(r, StorageFailed("Storing followers failed"))
          /\ UNCHANGED <<db, hist>>
    /\ UNCHANGED <<now, cookie, server, call, save, btn>>

\* one turn of the following loop; after the last page
\* following = deduplicateUsers(following) and storage.putFollowing(following)
\* is called
GotFollowingPage(r) ==
    /\ pc[r] = "following"
    /\ \E f \in Settlements(r) :
          LET page == getFriendshipPage(f, "following")
              following == run[r].following \o page.users
          IN
          IF ~page.ok THEN Fail(r, page.err)
          ELSE IF LastPage(page)
          THEN /\ run' = [run EXCEPT ![r].following = deduplicateUsers(following),
                                     ![r].last = ~f.out.val.has_more,
                                     ![r].pages = Append(@, GotPage(f, page))]
               /\ fetch' = [fetch EXCEPT ![r] = IdleFetch]
               /\ pc' = [pc EXCEPT ![r] = "putFollowing"]
               /\ UNCHANGED <<kv, lastFetchTime, dispatched>>
          ELSE /\ run' = [run EXCEPT ![r].following = following,
                                     ![r].pages = Append(@, GotPage(f, page))]
               /\ BeginFetch(r, FriendshipUrl(run[r].userId, "following",
                                              NextMaxId(page)))
               /\ UNCHANGED <<pc, kv>>
    /\ UNCHANGED <<now, cookie, server, call, db, save, btn, hist>>

\* await storage.putFollowing(following)
PutFollowing(r) ==
    /\ pc[r] = "putFollowing"
    /\ ~ClearTxActive
    /\ \/ /\ db' = putFollowing(db, run[r].following)
          /\ hist' = [hist EXCEPT
                        !.following = IF run[r].last THEN "full" ELSE "partial",
                        !.dataFor = @ \cup {run[r].userId}]
          /\ run' = [run EXCEPT ![r].pages = <<>>]
          /\ pc' = [pc EXCEPT ![r] = "putCounts"]
          /\ UNCHANGED <<kv, fvars>>
       \/ /\ Fail(r, StorageFailed("Storing following failed"))
          /\ UNCHANGED <<db, hist>>
    /\ UNCHANGED <<now, cookie, server, call, save, btn>>

\* await storage.putCounts({time: refreshTime, ...})
PutCounts(r) ==
    /\ pc[r] = "putCounts"
    /\ ~ClearTxActive
    /\ \/ /\ db' = putCounts(db, [time |-> run[r].refreshTime,
                                   followersCount |-> Len(run[r].followers),
                                   followingCount |-> Len(run[r].following)])
          /\ hist' = [hist EXCEPT !.lastCounts = run[r].refreshTime,
                                  !.nCounts = @ + 1,
                                  !.dataFor = @ \cup {run[r].userId}]
          /\ pc' = [pc EXCEPT ![r] = "putLastError"]
          /\ run' = [run EXCEPT ![r] = NoRun]
          /\ UNCHANGED <<kv, fvars>>
       \/ /\ Fail(r, StorageFailed("Storing counts failed"))
          /\ UNCHANGED <<db, hist>>
    /\ UNCHANGED <<now, cookie, server, call, save, btn>>

\* await storage.putLastError(''); doRefresh returns
PutNoError(r) ==
    /\ pc[r] = "putLastError"
    /\ kv' = [kv EXCEPT !.lastError = <<>>]
    /\ pc' = [pc EXCEPT ![r] = "refreshUi"]
    /\ UNCHANGED <<now, fvars, cookie, server, call, db, run, save, btn, hist>>

\* await refreshUi(); refreshBtn.disabled = false -- not reached when
\* refreshUi rejects
RefreshUi(r) ==
    /\ pc[r] = "refreshUi"
    /\ pc' = [pc EXCEPT ![r] = "idle"]
    /\ \/ btn' = [btn EXCEPT !.refresh = FALSE]
       \/ UNCHANGED btn
    /\ UNCHANGED <<now, fvars, cookie, server, call, kv, db, run, save, hist>>

\* the sleep of doFetchJson is over in a handler's call
AwaitSleep(p) ==
    /\ FetchWake(p)
    /\ UNCHANGED pvars

\* the request of a handler's call ends in a timeout or a 5xx answer that is
\* retried
AwaitBackoff(p) ==
    /\ FetchRespond(p)
    /\ fetch'[p].st = "backoff"
    /\ UNCHANGED pvars

\* the back-off of doFetchJson is over in a handler's call
AwaitRetry(p) ==
    /\ FetchRetry(p)
    /\ UNCHANGED pvars

\* ------------------------------------------- saveUsernameBtn click handler
\* finally { saveUsernameBtn.disabled = false }
SaveEnd ==
    /\ pc' = [pc EXCEPT ![SaveP] = "idle"]
    /\ save' = NoSave
    /\ btn' = [btn EXCEPT !.save = FALSE]

\* catch (error): await showUsernameError(error.message)
SaveFail(error) ==
    /\ kv' = [kv EXCEPT !.lastError = <<Head(error).msg>>]
    /\ SaveEnd

\* validateUsername, then client.getUserIdFromUsername(username)
SaveClick ==
    /\ pc[SaveP] = "idle"
    /\ Clickable(btn.save)
    /\ Loaded
    /\ hist.clicks + hist.saves < MaxClicks
    /\ hist' = [hist EXCEPT !.saves = @ + 1]
    /\ \E username \in AccountNames \cup {""} :
          IF username = ""
          THEN /\ kv' = [kv EXCEPT !.lastError = <<"Username cannot be empty">>]
               /\ UNCHANGED <<pc, save, btn, fvars>>
          ELSE /\ btn' = [btn EXCEPT !.save = TRUE]
               /\ save' = [NoSave EXCEPT !.username = username]
               /\ BeginFetch(SaveP, ProfileUrl(username))
               /\ pc' = [pc EXCEPT ![SaveP] = "lookup"]
               /\ UNCHANGED kv
    /\ UNCHANGED <<now, cookie, server, call, db, run>>

\* const userId = await client.getUserIdFromUsername(username);
\* storage.clearAllData() is called
SaveGotUserId ==
    /\ pc[SaveP] = "lookup"
    /\ fetch' = [fetch EXCEPT ![SaveP] = IdleFetch]
    /\ \E f \in Settlements(SaveP) :
          LET res == getUserIdFromUsername(f) IN
          IF res.ok
          THEN /\ save' = [save EXCEPT !.userId = res.val]
               /\ pc' = [pc EXCEPT ![SaveP] = "clear"]
               /\ UNCHANGED <<kv, btn>>
          ELSE SaveFail(res.err)
    /\ UNCHANGED <<now, lastFetchTime, dispatched, cookie, server, call, db, run, hist>>

\* clearAllData: the transaction over the four stores starts
ClearBegin ==
    /\ pc[SaveP] = "clear"
    /\ \A r \in Runs : ~FollowersTxActive(r)
    /\ \/ /\ pc' = [pc EXCEPT ![SaveP] = "clearing"]
          /\ UNCHANGED <<kv, save, btn>>
       \/ SaveFail(StorageFailed("Clearing all data failed"))
    /\ UNCHANGED <<now, fvars, cookie, server, call, db, run, hist>>

\* the four clear() calls and await tx.done
ClearDone ==
    /\ pc[SaveP] = "clearing"
    /\ \/ /\ db' = clearAllData(db)
          /\ hist' = [hist EXCEPT !.nDelta = 0, !.nCounts = 0,
                                  !.followers = "none", !.following = "none",
                                  !.dataFor = {}]
          /\ pc' = [pc EXCEPT ![SaveP] = "putCustomUserId"]
          /\ UNCHANGED <<kv, save, btn>>
       \/ /\ SaveFail(StorageFailed("Clearing all data failed"))
          /\ UNCHANGED <<db, hist>>
    /\ UNCHANGED <<now, fvars, cookie, server, call, run>>

\* await storage.putCustomUserId(userId)
PutCustomUserId ==
    /\ pc[SaveP] = "putCustomUserId"
    /\ kv' = [kv EXCEPT !.customUserId = save.userId]
    /\ pc' = [pc EXCEPT ![SaveP] = "putUsername"]
    /\ UNCHANGED <<now, fvars, cookie, server, call, db, run, save, btn, hist>>

\* await storage.putUsername(username)
PutUsername ==
    /\ pc[SaveP] = "putUsername"
    /\ kv' = [kv EXCEPT !.userName = save.username]
    /\ pc' = [pc EXCEPT ![SaveP] = "saveUi"]
    /\ UNCHANGED <<now, fvars, cookie, server, call, db, run, save, btn, hist>>

\* hideUsernameChangeContainer(); await refreshUi()
SaveUi ==
    /\ pc[SaveP] = "saveUi"
    /\ \/ SaveEnd /\ UNCHANGED kv
       \/ SaveFail(StorageFailed("Getting latest counts failed"))
    /\ UNCHANGED <<now, fvars, cookie, server, call, db, run, hist>>

\* ------------------------------------------------------------------ onLoad
\* const customUserId = await storage.getCustomUserId()
LoadGetCustomUserId ==
    /\ pc[LoadP] = "onLoad"
    /\ pc' = [pc EXCEPT ![LoadP] =
                 IF kv.customUserId # "" THEN "loadUi" ELSE "loadUsername"]
    /\ UNCHANGED <<now, fvars, cookie, server, call, kv, db, run, save, btn, hist>>

\* const storedUsername = await storage.getUsername()
LoadGetUsername ==
    /\ pc[LoadP] = "loadUsername"
    /\ pc' = [pc EXCEPT ![LoadP] =
                 IF kv.userName # "" THEN "loadUi" ELSE "loadUserId"]
    /\ UNCHANGED <<now, fvars, cookie, server, call, kv, db, run, save, btn, hist>>

\* const userId = await client.getUserId(); client.getUsername(userId) is
\* called, or the error is stored
LoadGetUserId ==
    /\ pc[LoadP] = "loadUserId"
    /\ IF getUserId.ok
       THEN /\ BeginFetch(LoadP, InfoUrl(getUserId.val))
            /\ pc' = [pc EXCEPT ![LoadP] = "loadResolve"]
            /\ UNCHANGED kv
       ELSE /\ kv' = [kv EXCEPT !.lastError = getErrorMessage(getUserId.err)]
            /\ pc' = [pc EXCEPT ![LoadP] = "loadUi"]
            /\ UNCHANGED fvars
    /\ UNCHANGED <<now, cookie, server, call, db, run, save, btn, hist>>

\* const username = await client.getUsername(userId);
\* await storage.putUsername(username), or the error is stored
LoadGotUsername ==
    /\ pc[LoadP] = "loadResolve"
    /\ fetch' = [fetch EXCEPT ![LoadP] = IdleFetch]
    /\ \E f \in Settlements(LoadP) :
          LET res == getUsername(f) IN
          kv' = IF res.ok THEN [kv EXCEPT !.userName = res.val]
                ELSE [kv EXCEPT !.lastError = getErrorMessage(res.err)]
    /\ pc' = [pc EXCEPT ![LoadP] = "loadUi"]
    /\ UNCHANGED <<now, lastFetchTime, dispatched, cookie, server, call, db, run, save, btn, hist>>

\* await refreshUi()
LoadUi ==
    /\ pc[LoadP] = "loadUi"
    /\ pc' = [pc EXCEPT ![LoadP] = "idle"]
    /\ UNCHANGED <<now, fvars, cookie, server, call, kv, db, run, save, btn, hist>>

\* ------------------------------------------------------ page specification
\* the page is opened for the first time, onLoad starts
Init ==
    /\ InitCommon
    /\ call = NoCall
    /\ cookie \in BOOLEAN
    /\ server = PageStatuses
    /\ pc = [p \in Procs |-> IF p = LoadP THEN "onLoad" ELSE "idle"]

\* a handler that can go on without waiting for the network or a timer
Runnable(p) ==
    \/ pc[p] \in {"getCustomUserId", "getUserId", "putUsername", "tx_get",
                  "tx_putFollowers", "tx_putHistory", "tx_done", "putFollowing",
                  "putCounts", "putLastError", "refreshUi", "clear", "clearing",
                  "putCustomUserId", "saveUi", "onLoad", "loadUsername",
                  "loadUserId", "loadUi"}
    \/ fetch[p].st \in {"sleep", "backoff"} /\ now >= fetch[p].wake

\* storage calls and due timers run before the clock moves on, and the
\* server answers within MaxLatency clock steps
TickQuiet(limit) ==
    /\ \A p \in Procs : ~Runnable(p)
    /\ \A p \in Procs :
          fetch[p].st = "inflight" => now < fetch[p].sent + 1000 * MaxLatency
    /\ Tick(limit)

TickPage == TickQuiet(MaxTicks)

Handlers == Runs \cup {SaveP, LoadP}

\* a step of an execution of the refresh click handler
Refresh(r) ==
    \/ RefreshClick(r)
    \/ GetCustomUserId(r)
    \/ GetUserId(r)
    \/ GotUsername(r)
    \/ PutRunUsername(r)
    \/ GotFollowersPage(r)
    \/ TxGet(r)
    \/ TxPutFollowers(r)
    \/ TxPutHistory(r)
    \/ TxDone(r)
    \/ GotFollowingPage(r)
    \/ PutFollowing(r)
    \/ PutCounts(r)
    \/ PutNoError(r)
    \/ RefreshUi(r)

\* a step of the save-username click handler
Save ==
    \/ SaveClick
    \/ SaveGotUserId
    \/ ClearBegin
    \/ ClearDone
    \/ PutCustomUserId
    \/ PutUsername
    \/ SaveUi

\* a step of onLoad
Load ==
    \/ LoadGetCustomUserId
    \/ LoadGetUsername
    \/ LoadGetUserId
    \/ LoadGotUsername
    \/ LoadUi

Next ==
    \/ \E r \in Runs : Refresh(r)
    \/ Save
    \/ Load
    \/ \E p \in Handlers : AwaitSleep(p)
    \/ TickPage

Spec == Init /\ [][Next]_vars

\* ---------------------------------------------- refresh-only specification
\* the page has been loaded; the server may be in trouble
InitRefresh ==
    /\ InitCommon
    /\ call = NoCall
    /\ cookie \in BOOLEAN
    /\ server = Statuses
    /\ pc = [p \in Procs |-> "idle"]

TickRefresh == TickQuiet(MaxTicksRefresh)

NextRefresh ==
    \/ \E r \in Runs : Refresh(r)
    \/ \E r \in Runs : AwaitSleep(r)
    \/ \E r \in Runs : AwaitBackoff(r)
    \/ \E r \in Runs : AwaitRetry(r)
    \/ TickRefresh

SpecRefresh == InitRefresh /\ [][NextRefresh]_vars

\* ----------------------------------------------- fetcher-only specification
\* a caller awaits one doFetchJson call after another
CallFetchJson ==
    /\ fetch[CallerP].st \in {"idle", "ok", "err"}
    /\ BeginFetch(CallerP, InfoUrl(CookieUserId))
    /\ UNCHANGED now
    /\ UNCHANGED pvars

InitFetch ==
    /\ InitCommon
    /\ call = NoCall
    /\ cookie = TRUE
    /\ server = Statuses
    /\ pc = [p \in Procs |-> "idle"]

TickFetch == Tick(MaxTicksFetch)

\* the caller's call goes on: its sleep is over
CallerWake == FetchWake(CallerP) /\ UNCHANGED pvars

\* the caller's call goes on: its request ends
CallerRespond == FetchRespond(CallerP) /\ UNCHANGED pvars

\* the caller's call goes on: its back-off is over
CallerRetry == FetchRetry(CallerP) /\ UNCHANGED pvars

NextFetch ==
    \/ CallFetchJson
    \/ CallerWake
    \/ CallerRespond
    \/ CallerRetry
    \/ TickFetch

SpecFetch == InitFetch /\ [][NextFetch]_vars

\* ------------------------------------------ fetcher specification, fairness
\* the longest a doFetchJson call can take when every timer fires when it is
\* due: MAX_RETRIES + 1 attempts, each a sleep below DELAY_FETCH_MAX_MS and a
\* request cut off after MAX_FETCH_TIMEOUT_MS, and MAX_RETRIES back-offs
CallMaxMs ==
    (MAX_RETRIES + 1) * (DELAY_FETCH_MAX_MS + MAX_FETCH_TIMEOUT_MS)
    + MAX_RETRIES * RETRY_TIMEOUT_MS

\* a call is made while the clock steps explored can hold the whole of it
CallInTime ==
    /\ now + CallMaxMs <= StartTime + 1000 * MaxTicksLive
    /\ CallFetchJson

\* a timer of the call is due: the sleep or the back-off is over, or the
\* AbortSignal.timeout of the request in flight has fired
TimerDue(f) ==
    \/ f.st \in {"sleep", "backoff"} /\ now >= f.wake
    \/ f.st = "inflight" /\ TimedOut(f)

\* time passes; a timer that is due fires before the clock moves on
TickLive ==
    /\ ~TimerDue(fetch[CallerP])
    /\ Tick(MaxTicksLive)

NextFetchLive ==
    \/ CallInTime
    \/ CallerWake
    \/ CallerRespond
    \/ CallerRetry
    \/ TickLive

\* setTimeout callbacks run, every request ends (answer, network failure or
\* its timeout), and time passes
SpecFetchLive ==
    /\ InitFetch
    /\ [][NextFetchLive]_vars
    /\ WF_vars(CallerWake)
    /\ WF_vars(CallerRespond)
    /\ WF_vars(CallerRetry)
    /\ WF_vars(TickLive)

\* ---------------------------------------------- storage-only specification
\* the users of the lists the storage is called with: three ids, the first
\* of them under two usernames
StoreUsers ==
    {[id |-> 1, username |-> "a"], [id |-> 1, username |-> "b"],
     [id |-> 2, username |-> "a"], [id |-> 3, username |-> "a"]}

\* doRefresh passes lists that went through deduplicateUsers
StoreLists == {deduplicateUsers(l) : l \in SeqsUpTo(StoreUsers, MaxListLen)}

\* await storage.putFollowersAndUpdateHistory(followers, Date.now())
StorePutFollowers ==
    /\ hist.calls < MaxCalls
    /\ \E followers \in StoreLists :
          db' = putFollowersAndUpdateHistory(db, followers, now)
    /\ hist' = [hist EXCEPT !.calls = @ + 1, !.lastDelta = now,
                            !.nDelta = @ + 1, !.followers = "full"]
    /\ UNCHANGED <<now, fvars, cookie, server, call, kv, pc, run, save, btn>>

\* await storage.clearAllData()
StoreClearAll ==
    /\ hist.calls < MaxCalls
    /\ db' = clearAllData(db)
    /\ hist' = [hist EXCEPT !.calls = @ + 1, !.nDelta = 0, !.nCounts = 0,
                            !.followers = "none", !.following = "none"]
    /\ UNCHANGED <<now, fvars, cookie, server, call, kv, pc, run, save, btn>>

TickStore == Tick(MaxTicksStore)

InitStore ==
    /\ InitCommon
    /\ call = NoCall
    /\ cookie = TRUE
    /\ server = Statuses
    /\ pc = [p \in Procs |-> "idle"]

NextStore ==
    \/ StorePutFollowers
    \/ StoreClearAll
    \/ TickStore

SpecStore == InitStore /\ [][NextStore]_vars

\* -------------------------------------------- storage-queries specification
\* every method of InstagramStorage that reads or writes the four stores,
\* called by one caller, one call at a time, over days

\* the lists stored: the first users of a list of users with different ids
StoredUsers == [i \in 1..MaxStored |-> [id |-> i, username |-> "a"]]
StoredLists == {SubSeq(StoredUsers, 1, k) : k \in 0..MaxStored}

\* the times a call can be given: Date.now() of this day or of an earlier one
DayTimes == {StartTime + k * MS_PER_DAY : k \in 0..MaxDays}

\* the rows putCounts is called with
CountRows ==
    [time : DayTimes, followersCount : 0..1, followingCount : {0}]

\* a call of a method of InstagramStorage that has returned
StoreCall(fn, arg, res) ==
    [NoCall EXCEPT !.fn = fn, !.st = "returned", !.arg = arg, !.res = res]

\* the caller has used the result and goes on
UseResult ==
    /\ call.fn # "none"
    /\ call' = NoCall
    /\ UNCHANGED <<now, fvars, cookie, server, kv, db, pc, run, save, btn, hist>>

\* await storage.putFollowersAndUpdateHistory(followers, Date.now())
CallPutFollowers ==
    /\ call.fn = "none"
    /\ hist.calls < MaxPuts
    /\ \E followers \in StoredLists :
          db' = putFollowersAndUpdateHistory(db, followers, now)
    /\ hist' = [hist EXCEPT !.calls = @ + 1, !.lastDelta = now,
                            !.nDelta = @ + 1, !.followers = "full"]
    /\ UNCHANGED <<now, fvars, cookie, server, call, kv, pc, run, save, btn>>

\* await storage.putFollowing(following)
CallPutFollowing ==
    /\ call.fn = "none"
    /\ hist.calls < MaxPuts
    /\ \E following \in StoredLists :
          /\ db' = putFollowing(db, following)
          /\ call' = StoreCall("putFollowing", following, <<>>)
    /\ hist' = [hist EXCEPT !.calls = @ + 1, !.following = "full"]
    /\ UNCHANGED <<now, fvars, cookie, server, kv, pc, run, save, btn>>

\* await storage.putCounts(countHistory), with the time of a refresh that
\* started at this moment or earlier
CallPutCounts ==
    /\ call.fn = "none"
    /\ hist.calls < MaxPuts
    /\ \E countHistory \in CountRows :
          /\ countHistory.time <= now
          /\ db' = putCounts(db, countHistory)
          /\ hist' = [hist EXCEPT !.calls = @ + 1, !.nCounts = @ + 1,
                                  !.lastCounts = countHistory.time]
    /\ UNCHANGED <<now, fvars, cookie, server, call, kv, pc, run, save, btn>>

\* await storage.clearAllData()
CallClearAll ==
    /\ call.fn = "none"
    /\ hist.calls < MaxPuts
    /\ db' = clearAllData(db)
    /\ hist' = [hist EXCEPT !.calls = @ + 1, !.nDelta = 0, !.nCounts = 0,
                            !.followers = "none", !.following = "none"]
    /\ UNCHANGED <<now, fvars, cookie, server, call, kv, pc, run, save, btn>>

\* the window lengths getFollowersDelta is called with; refreshUi passes 7
DeltaDays == {7} \cup 0..MaxDays

\* await storage.getFollowersDelta(deltaDays)
CallGetFollowersDelta ==
    /\ call.fn = "none"
    /\ \E deltaDays \in DeltaDays :
          call' = StoreCall("getFollowersDelta", deltaDays,
                            getFollowersDelta(db, deltaDays, now))
    /\ UNCHANGED <<now, fvars, cookie, server, kv, db, pc, run, save, btn, hist>>

\* the numbers of entries getFollowersHistory is asked for; the history page
\* passes 1000
MaxEntries == {1000} \cup 0..MaxPuts

\* await storage.getFollowersHistory(maxEntries)
CallGetFollowersHistory ==
    /\ call.fn = "none"
    /\ \E maxEntries \in MaxEntries :
          call' = StoreCall("getFollowersHistory", maxEntries,
                            getFollowersHistory(db, maxEntries))
    /\ UNCHANGED <<now, fvars, cookie, server, kv, db, pc, run, save, btn, hist>>

\* await storage.getLatestCounts()
CallGetLatestCounts ==
    /\ call.fn = "none"
    /\ call' = StoreCall("getLatestCounts", <<>>, getLatestCounts(db))
    /\ UNCHANGED <<now, fvars, cookie, server, kv, db, pc, run, save, btn, hist>>

\* a day passes between two calls
DayPasses ==
    /\ call.fn = "none"
    /\ now - StartTime < MaxDays * MS_PER_DAY
    /\ now' = now + MS_PER_DAY
    /\ UNCHANGED fvars
    /\ UNCHANGED pvars

InitQueries ==
    /\ InitCommon
    /\ call = NoCall
    /\ cookie = TRUE
    /\ server = Statuses
    /\ pc = [p \in Procs |-> "idle"]

NextQueries ==
    \/ CallPutFollowers
    \/ CallPutFollowing
    \/ CallPutCounts
    \/ CallClearAll
    \/ CallGetFollowersDelta
    \/ CallGetFollowersHistory
    \/ CallGetLatestCounts
    \/ UseResult
    \/ DayPasses

SpecQueries == InitQueries /\ [][NextQueries]_vars


\* -------------------------------------------- pure-function specification
\* deduplicateUsers(users) is called with any list of users
DedupCalls ==
    {[NoCall EXCEPT !.fn = "deduplicateUsers", !.st = "called", !.arg = users] :
        users \in SeqsUpTo(Users, MaxDedupLen)}

\* deduplicateUsers returns
Deduplicate ==
    /\ call.fn = "deduplicateUsers"
    /\ call.st = "called"
    /\ call' = [call EXCEPT !.st = "returned", !.res = deduplicateUsers(call.arg)]
    /\ UNCHANGED <<now, fvars, cookie, server, kv, db, pc, run, save, btn, hist>>

\* deduplicateUsers is called with the list it returned, and returns
DeduplicateAgain ==
    /\ call.fn = "deduplicateUsers"
    /\ call.st = "returned"
    /\ call' = [call EXCEPT !.st = "again", !.res2 = deduplicateUsers(call.res)]
    /\ UNCHANGED <<now, fvars, cookie, server, kv, db, pc, run, save, btn, hist>>

\* the answers of the friendships endpoint getFriendshipPage parses
Responses ==
    {[t |-> "page", hasUsers |-> hu, users |-> us, has_more |-> hm,
      next_max_id |-> nx] :
        hu \in BOOLEAN, us \in SeqsUpTo(Elems, MaxRespLen), hm \in BOOLEAN,
        nx \in 0..1}

\* getFriendshipPage(userId, 'followers', null) whose doFetchJson call returns
\* a response
PageCalls ==
    {[NoCall EXCEPT !.fn = "getFriendshipPage", !.st = "called", !.arg = response] :
        response \in {x \in Responses : x.hasUsers \/ x.users = <<>>}}

\* response = await this.doFetchJson(url)
Returned(response) ==
    [IdleFetch EXCEPT !.st = "ok",
                      !.out = [NoOut EXCEPT !.k = "json", !.val = response]]

\* getFriendshipPage returns or throws
GetFriendshipPage ==
    /\ call.fn = "getFriendshipPage"
    /\ call.st = "called"
    /\ call' = [call EXCEPT
                   !.st = "returned",
                   !.res = getFriendshipPage(Returned(call.arg), "followers")]
    /\ UNCHANGED <<now, fvars, cookie, server, kv, db, pc, run, save, btn, hist>>

InitPure ==
    /\ InitCommon
    /\ call \in DedupCalls \cup PageCalls
    /\ cookie = TRUE
    /\ server = Statuses
    /\ pc = [p \in Procs |-> "idle"]

NextPure ==
    \/ GetFriendshipPage
    \/ Deduplicate
    \/ DeduplicateAgain

SpecPure == InitPure /\ [][NextPure]_vars

\* ------------------------------------------------------------------ claims
\* C1: one doFetchJson call dispatches at most MAX_RETRIES + 1 = 6 requests:
\* once the sixth has been dispatched the call neither backs off nor sleeps
\* for another one, whatever mix of timeouts and 5xx answers used the budget
C1_AtMostSixDispatches ==
    \A p \in Procs :
        /\ fetch[p].sends <= MAX_RETRIES + 1
        /\ fetch[p].sends = MAX_RETRIES + 1 => fetch[p].st \in {"inflight", "ok", "err"}

\* C1: the sixth request of a call was answered 500 and the call threw the
\* HTTP error
C1_SixthFailureRaised ==
    /\ fetch[CallerP].st = "err"
    /\ fetch[CallerP].sends = MAX_RETRIES + 1
    /\ fetch[CallerP].count = 0
    /\ fetch[CallerP].out.k = "http"
    /\ fetch[CallerP].out.status = 500

\* p's call dispatches a request in this step
DispatchStep(p) ==
    /\ fetch'[p].st = "inflight"
    /\ fetch'[p].sends # fetch[p].sends \/ fetch'[p].url # fetch[p].url
       \/ fetch[p].st # "inflight"

\* C2: every request is dispatched at least DELAY_FETCH_MIN_MS after the
\* request dispatched before it, over sequential calls of one client
C2_DispatchesSpaced ==
    [][\A p \in Procs :
          DispatchStep(p) /\ dispatched # -1
              => now >= dispatched + DELAY_FETCH_MIN_MS]_vars

\* C3: every step that changes the 'current' followers record or the
\* followers_history store is the commit of clearAllData, or the commit of
\* one putFollowersAndUpdateHistory call, after which the record is that
\* call's list and the entry computed for that call's time is stored
C3_FollowersAndHistoryTogether ==
    [][db'.followers # db.followers \/ db'.followers_history # db.followers_history
          => \/ pc[SaveP] = "clearing" /\ db' = EmptyDb
             \/ \E r \in Runs :
                   /\ pc[r] = "tx_done"
                   /\ db'.followers = Present(run[r].followers)
                   /\ HistoryEntry(db.followers.val, run[r].followers,
                                   run[r].refreshTime)
                          \in db'.followers_history]_vars

\* C3: after clearAllData and putCustomUserId of the save-username handler,
\* a putFollowersAndUpdateHistory call has committed its list and its entry
C3_CommittedAfterClear ==
    /\ hist.saves = 1
    /\ kv.customUserId # ""
    /\ db.followers.has
    /\ \E e \in db.followers_history :
          e = HistoryEntry(<<>>, db.followers.val, e.time)

\* C4: the 'current' followers and following records are absent or hold the
\* deduplicated list of an enumeration whose last page had no more pages
C4_OnlyFullEnumerations ==
    /\ hist.followers # "partial"
    /\ hist.following # "partial"
    /\ db.followers.has
          => hist.followers = "full"
             /\ deduplicateUsers(db.followers.val) = db.followers.val
    /\ db.following.has
          => hist.following = "full"
             /\ deduplicateUsers(db.following.val) = db.following.val

\* C4: a followers enumeration has been stored, and a later cycle holds
\* users of the first page of an enumeration that has not ended
C4_PagesHeldWhileStored ==
    /\ db.followers.has
    /\ db.followers.val # <<>>
    /\ \E r \in Runs :
          /\ pc[r] = "followers"
          /\ run[r].followers # <<>>

\* C5: no two requests of the client are in flight at the same time
C5_OneRequestInFlight ==
    Cardinality({p \in Procs : fetch[p].st = "inflight"}) <= 1

\* C6: at most one execution of the refresh click handler (doRefresh and the
\* refreshUi that follows it) is in progress
C6_OneRefreshAtATime ==
    Cardinality({r \in Runs : pc[r] # "idle"}) <= 1

\* C6: a second refresh cycle is under way after the first has finished
C6_SecondCycleRunning ==
    /\ hist.clicks = 2
    /\ btn.refresh
    /\ \E r \in Runs : pc[r] = "following"

\* C7, as amended: when a request ends, the call backs off only after a
\* timeout or a 5xx answer; after a 4xx answer it throws at once; the HTTP
\* error it throws carries the status and the body text of the non-2xx
\* answer, and when that answer's body could not be read the failure of the
\* read is thrown in its place
C7_NoRetryAndHttpErrorCarriesAnswer ==
    [][\A p \in Procs :
          fetch[p].st = "inflight" /\ fetch'[p].st # "inflight"
          => LET f == fetch'[p] IN
             /\ f.sends = fetch[p].sends
             /\ f.status >= 400 /\ f.status <= 499 => f.st = "err"
             /\ f.st = "backoff"
                   => /\ f.count = fetch[p].count
                      /\ f.count > 0
                      /\ f.status >= 500 \/ TimedOut(fetch[p])
             /\ f.st = "err" /\ f.out.k = "http"
                   => /\ ~ResponseOk(f.status)
                      /\ f.out.status = f.status
                      /\ f.out.body = f.body
             /\ f.st = "err" /\ f.status # 0 /\ ~ResponseOk(f.status)
                   => f.out.k \in {"http", "network", "timeout"}]_vars

\* C7: the first request of a call was answered 404 and the call threw the
\* HTTP error with the whole retry budget left
C7_FirstAnswer404Raised ==
    /\ fetch[CallerP].st = "err"
    /\ fetch[CallerP].sends = 1
    /\ fetch[CallerP].count = MAX_RETRIES
    /\ fetch[CallerP].status = 404
    /\ fetch[CallerP].out = [NoOut EXCEPT !.k = "http", !.status = 404, !.body = "b2"]

\* C7, as stated: a call that threw after a non-2xx answer threw the HTTP
\* error, with the status and the body text of that answer
C7_NonOkErrorCarriesStatusAndBody ==
    \A p \in Procs :
        /\ fetch[p].st = "err"
        /\ fetch[p].status # 0
        /\ ~ResponseOk(fetch[p].status)
        => /\ fetch[p].out.k = "http"
           /\ fetch[p].out.status = fetch[p].status
           /\ fetch[p].out.body = fetch[p].body

\* C8: the time of a row written to followers_history, or to counts_history,
\* is never below the time of the row written to that store before it
C8_TimestampsNonDecreasing ==
    [][/\ hist'.lastDelta >= hist.lastDelta
       /\ hist'.lastCounts >= hist.lastCounts]_vars

\* C8: the second cycle has written its followers_history row
C8_SecondRowWritten ==
    /\ hist.clicks = 2
    /\ Cardinality({row.time : row \in db.followers_history}) = 2
    /\ \A row \in db.followers_history : row.time <= hist.lastDelta

\* C9: except for the commit of clearAllData, a step keeps every stored row
\* of followers_history and counts_history as it is, and each store grows by
\* exactly one row with every completed putFollowersAndUpdateHistory, or
\* putCounts, call
C9_RowsImmutable ==
    [][\/ pc[SaveP] = "clearing" /\ db' = EmptyDb
       \/ /\ db.followers_history \subseteq db'.followers_history
          /\ db.counts_history \subseteq db'.counts_history
          /\ Cardinality(db'.followers_history)
                = Cardinality(db.followers_history) + hist'.nDelta - hist.nDelta
          /\ Cardinality(db'.counts_history)
                = Cardinality(db.counts_history) + hist'.nCounts - hist.nCounts]_vars

\* C9: two cycles have stored two rows in each store
C9_TwoRowsEach ==
    /\ hist.nDelta = 2
    /\ hist.nCounts = 2
    /\ Cardinality(db.followers_history) = 2
    /\ Cardinality(db.counts_history) = 2

\* C10: without the ds_user_id cookie no request is dispatched
C10_NoCookieNoRequest ==
    ~cookie => dispatched = -1

\* C11: the entry putFollowersAndUpdateHistory stores holds as added exactly
\* the users of the new list whose id is the id of no user of the previous
\* list, and as removed exactly the users of the previous list whose id is
\* the id of no user of the new list; the username plays no part
C11_DeltaByIdOnly ==
    [][hist'.nDelta = hist.nDelta + 1 =>
          LET previous == db.followers.val
              current == db'.followers.val
              entry == CHOOSE e \in db'.followers_history : e.time = now
          IN /\ \A u \in StoreUsers :
                   u \in ElemsOf(entry.added) <=>
                       /\ u \in ElemsOf(current)
                       /\ \A v \in ElemsOf(previous) : v.id # u.id
             /\ \A u \in StoreUsers :
                   u \in ElemsOf(entry.removed) <=>
                       /\ u \in ElemsOf(previous)
                       /\ \A v \in ElemsOf(current) : v.id # u.id
             /\ ElemsOf(entry.added) \cup ElemsOf(entry.removed) \subseteq StoreUsers
      ]_vars

\* C11: the list with ids {1, 2} was replaced by the list with ids {2, 3}:
\* the entry has added {3} and removed {1}
C11_OneAddedOneRemoved ==
    /\ db.followers.has
    /\ IdsOf(db.followers.val) = {2, 3}
    /\ \E e \in db.followers_history :
          /\ e.time = hist.lastDelta
          /\ IdsOf(e.added) = {3}
          /\ IdsOf(e.removed) = {1}

\* C12: the ids of added and the ids of removed of a call's entry are
\* disjoint, taking the removed ids out of the previous id set and putting the
\* added ids in gives the id set of the new list, and no stored entry has an
\* id twice in added or twice in removed
C12_DeltaTurnsPreviousIntoCurrent ==
    [][hist'.nDelta = hist.nDelta + 1 =>
          LET previous == IdsOf(db.followers.val)
              current == IdsOf(db'.followers.val)
              entry == CHOOSE e \in db'.followers_history : e.time = now
          IN /\ IdsOf(entry.added) \cap IdsOf(entry.removed) = {}
             /\ (previous \ IdsOf(entry.removed)) \cup IdsOf(entry.added) = current
             /\ \A e \in db'.followers_history :
                   NoDuplicateIds(e.added) /\ NoDuplicateIds(e.removed)
      ]_vars

\* C12: a list of two users was replaced by a list of two other users, one of
\* them carrying an id of the previous list: the entry stored for it has both
\* an added and a removed user
C12_EntryWithAddedAndRemoved ==
    /\ db.followers.has
    /\ Len(db.followers.val) = 2
    /\ \E e \in db.followers_history :
          /\ e.time = hist.lastDelta
          /\ Len(e.added) = 1
          /\ Len(e.removed) = 1
          /\ e.added[1].id # e.removed[1].id
          /\ \E k \in 1..2 : db.followers.val[k].id \notin IdsOf(e.added)

\* C13: a call that finds no record under 'current' and is given a non-empty
\* list commits: the list becomes the record, and the entry stored for the
\* call's time has the whole list as added, in order, and nothing as removed
C13_FirstRunAddsAll ==
    [][/\ hist'.nDelta = hist.nDelta + 1
       /\ ~db.followers.has
       => /\ db'.followers.has
          /\ \E e \in db'.followers_history :
                /\ e.time = now
                /\ e.added = db'.followers.val
                /\ e.removed = <<>>
      ]_vars

\* C13: the first call ever was given two users and no call followed it
C13_FirstEntryOfTwo ==
    /\ hist.calls = 1
    /\ db.followers.has
    /\ Len(db.followers.val) = 2
    /\ db.followers_history =
           {[time |-> hist.lastDelta, added |-> db.followers.val, removed |-> <<>>]}

\* C14: a call at a later time than the call before it, given a list with
\* the id set of the stored list, leaves the earlier call's entry as it is
\* and stores one more entry, for its own time, whose added and removed are
\* both empty
C14_SameIdsEmptyDelta ==
    [][/\ hist'.nDelta = hist.nDelta + 1
       /\ db.followers.has
       /\ IdsOf(db'.followers.val) = IdsOf(db.followers.val)
       /\ now > hist.lastDelta
       => /\ db.followers_history \subseteq db'.followers_history
          /\ \E e \in db.followers_history : e.time = hist.lastDelta
          /\ db'.followers_history \ db.followers_history =
                 {[time |-> now, added |-> <<>>, removed |-> <<>>]}
      ]_vars

\* C14: two calls at different times with the same non-empty id set: two
\* entries, the earlier one adding the list, the later one empty
C14_TwoRowsSecondEmpty ==
    /\ hist.nDelta = 2
    /\ db.followers.has
    /\ Len(db.followers.val) = 2
    /\ Cardinality(db.followers_history) = 2
    /\ \E e1, e2 \in db.followers_history :
          /\ e1.time < e2.time
          /\ e2.time = hist.lastDelta
          /\ IdsOf(e1.added) = IdsOf(db.followers.val)
          /\ e2.added = <<>>
          /\ e2.removed = <<>>

\* C15: the list deduplicateUsers returns has no id twice, has exactly the
\* ids of its argument, holds for every id the entry of the id's first
\* occurrence in the argument, in the order of these first occurrences, and
\* is returned unchanged when deduplicateUsers is called with it
C15_DeduplicateKeepsFirst ==
    call.fn = "deduplicateUsers" /\ call.st \in {"returned", "again"} =>
        LET L == call.arg
            R == call.res
            first(id) == CHOOSE i \in 1..Len(L) :
                            /\ L[i].id = id
                            /\ \A j \in 1..(i - 1) : L[j].id # id
        IN /\ \A k, l \in 1..Len(R) : R[k].id = R[l].id => k = l
           /\ {R[k].id : k \in 1..Len(R)} = {L[i].id : i \in 1..Len(L)}
           /\ \A k \in 1..Len(R) : R[k] = L[first(R[k].id)]
           /\ \A k, l \in 1..Len(R) : k < l => first(R[k].id) < first(R[l].id)
           /\ call.st = "again" => call.res2 = R

\* C15: a list of three entries whose first and third have the same id under
\* different usernames was deduplicated, and its result was deduplicated again
C15_ThirdRepeatsFirst ==
    /\ call.fn = "deduplicateUsers"
    /\ call.st = "again"
    /\ Len(call.arg) = 3
    /\ call.arg[1].id = call.arg[3].id
    /\ call.arg[1].username # call.arg[3].username
    /\ call.arg[2].id # call.arg[1].id
    /\ Len(call.res) = 2

\* the pages an execution of doRefresh has received for the listing it is
\* enumerating were requested in cursor order: the first with no max_id, each
\* later one with the nextMaxId of the page before it, and no page but the
\* last one received can be without nextMaxId
InCursorOrder(pages) ==
    \A i \in 1..Len(pages) :
        /\ pages[i].cursor = IF i = 1 THEN 0 ELSE pages[i - 1].nextMaxId
        /\ i < Len(pages) => pages[i].nextMaxId # 0

\* C16: while a listing is enumerated the request under way carries no max_id
\* if no page was received yet and else the nextMaxId of the last page, which
\* is not empty, and the list held is the concatenation of the pages' users;
\* once the enumeration is over its last page has no nextMaxId and the list
\* held is the deduplicated concatenation
C16_PagesInCursorOrder ==
    \A r \in Runs :
        LET pages == run[r].pages
            held == IF pc[r] \in {"followers", "tx_get", "tx_putFollowers",
                                  "tx_putHistory", "tx_done"}
                    THEN run[r].followers ELSE run[r].following
        IN /\ InCursorOrder(pages)
           /\ pc[r] \in {"followers", "following"} =>
                 /\ fetch[r].url.ep = pc[r]
                 /\ fetch[r].url.cursor =
                        IF pages = <<>> THEN 0 ELSE pages[Len(pages)].nextMaxId
                 /\ pages # <<>> => pages[Len(pages)].nextMaxId # 0
                 /\ held = Pushed(pages)
           /\ pc[r] \in {"tx_get", "tx_putFollowers", "tx_putHistory", "tx_done",
                         "putFollowing"} =>
                 /\ pages # <<>>
                 /\ pages[Len(pages)].nextMaxId = 0
                 /\ held = deduplicateUsers(Pushed(pages))
           /\ pc[r] \notin {"followers", "following", "tx_get", "tx_putFollowers",
                            "tx_putHistory", "tx_done", "putFollowing"} =>
                 pages = <<>>

\* C16: the followers listing came in two pages which both hold the same
\* user, and the list about to be stored holds the user once
C16_SameUserOnBothPages ==
    \E r \in Runs :
        /\ pc[r] = "tx_get"
        /\ Len(run[r].pages) = 2
        /\ run[r].pages[1].users # <<>>
        /\ run[r].pages[1].users = run[r].pages[2].users
        /\ run[r].followers = run[r].pages[1].users

\* C17: getFriendshipPage given a response with has_more true and an empty or
\* absent next_max_id throws: it returns no page, with or without nextMaxId,
\* and the error it throws wraps the complaint about the response
C17_EmptyNextMaxIdThrows ==
    /\ call.fn = "getFriendshipPage"
    /\ call.st = "returned"
    /\ call.arg.has_more
    /\ call.arg.next_max_id = 0
    => /\ ~call.res.ok
       /\ call.res.users = <<>>
       /\ Len(call.res.err) = 2
       /\ call.res.err[1].msg = "Fetching followers failed"
       /\ call.res.err[2].msg \in {"Empty nextMaxId, while hasMore is true",
                                   "no users field", "malformed users"}

\* C17: a response with two well-formed users, has_more true and no
\* next_max_id was refused for its empty nextMaxId
C17_FullPageRefused ==
    /\ call.fn = "getFriendshipPage"
    /\ call.st = "returned"
    /\ call.arg.has_more
    /\ call.arg.next_max_id = 0
    /\ call.arg.hasUsers
    /\ Len(call.arg.users) = 2
    /\ \A i \in 1..2 : call.arg.users[i] \in Users
    /\ ~call.res.ok
    /\ call.res.err[2].msg = "Empty nextMaxId, while hasMore is true"

\* C18: getFriendshipPage returns a page only for a response that has the
\* users field and no element without id or username, and then the page holds
\* every element in order; for a response without the users field or with
\* such an element it throws and returns no users
C18_PageOnlyFromWellFormedUsers ==
    call.fn = "getFriendshipPage" /\ call.st = "returned" =>
        LET response == call.arg
            wellFormed ==
                /\ response.hasUsers
                /\ \A i \in 1..Len(response.users) :
                      response.users[i] \notin {NoIdElem, NoNameElem}
        IN /\ call.res.ok => wellFormed /\ call.res.users = response.users
           /\ ~wellFormed =>
                 /\ ~call.res.ok
                 /\ call.res.users = <<>>
                 /\ call.res.err[1].msg = "Fetching followers failed"

\* C18: a response whose first element is well-formed and whose second has
\* no username was refused as a whole
C18_SecondElementWithoutUsername ==
    /\ call.fn = "getFriendshipPage"
    /\ call.st = "returned"
    /\ call.arg.hasUsers
    /\ Len(call.arg.users) = 2
    /\ call.arg.users[1] \in Users
    /\ call.arg.users[2] = NoNameElem
    /\ ~call.arg.has_more
    /\ ~call.res.ok
    /\ call.res.users = <<>>
    /\ call.res.err[2].msg = "malformed users"

\* C19: the lists stored under 'current' in followers and in following, the
\* lists putFollowersAndUpdateHistory compares and writes, and the list
\* putFollowing is called with have no id twice
C19_NoDuplicateIdsDiffedOrStored ==
    /\ NoDuplicateIds(db.followers.val)
    /\ NoDuplicateIds(db.following.val)
    /\ \A r \in Runs :
          /\ pc[r] \in {"tx_get", "tx_putFollowers", "tx_putHistory", "tx_done"} =>
                /\ NoDuplicateIds(run[r].followers)
                /\ NoDuplicateIds(run[r].prevFollowers)
                /\ NoDuplicateIds(run[r].txFollowers.val)
          /\ pc[r] \in {"putFollowing", "putCounts"} =>
                NoDuplicateIds(run[r].following)

\* C19: in the second refresh cycle the followers list is being compared
\* with the stored one, after a listing whose pages held one user twice
C19_DuplicatePagesSecondCycle ==
    \E r \in Runs :
        /\ hist.clicks = 2
        /\ hist.nDelta = 1
        /\ pc[r] = "tx_putHistory"
        /\ Len(Pushed(run[r].pages)) = 2
        /\ ~NoDuplicateIds(Pushed(run[r].pages))
        /\ Len(run[r].followers) = 1
        /\ Len(run[r].prevFollowers) = 1
        /\ db.following.has

\* C20: the step in which clearAllData ends successfully, and every step in
\* which a record under 'current' or a row of followers_history or of
\* counts_history disappears, leaves all four stores empty
C20_ClearAllAtOnce ==
    [][\/ pc[SaveP] = "clearing" /\ pc'[SaveP] = "putCustomUserId"
       \/ db.followers.has /\ ~db'.followers.has
       \/ db.following.has /\ ~db'.following.has
       \/ \E e \in db.followers_history :
             \A x \in db'.followers_history : x.time # e.time
       \/ \E e \in db.counts_history :
             \A x \in db'.counts_history : x.time # e.time
       => /\ ~db'.followers.has
          /\ ~db'.following.has
          /\ db'.followers_history = {}
          /\ db'.counts_history = {}
      ]_vars

\* C20: clearAllData has just ended on a database to which a refresh cycle
\* had written both records and a row of each history
C20_ClearedAfterFullCycle ==
    /\ pc[SaveP] = "putCustomUserId"
    /\ hist.lastDelta >= 0
    /\ hist.lastCounts >= 0
    /\ hist.following = "none"
    /\ hist.nCounts = 0
    /\ ~db.followers.has
    /\ ~db.following.has
    /\ db.followers_history = {}
    /\ db.counts_history = {}

\* C21: a call of putFollowing leaves the list it was given as the record
\* under 'current' of the store following, and leaves the record of the store
\* followers and the rows of followers_history and counts_history as they
\* were
C21_PutFollowingTouchesOnlyFollowing ==
    [][/\ hist'.calls = hist.calls + 1
       /\ call'.fn = "putFollowing"
       => /\ db'.following = [has |-> TRUE, val |-> call'.arg]
          /\ db'.followers = db.followers
          /\ db'.followers_history = db.followers_history
          /\ db'.counts_history = db.counts_history
      ]_vars

\* C21: putFollowing was called with a list of two users on a database that
\* holds another list of followers and the row written with it
C21_FollowingBesideFollowers ==
    /\ call.fn = "putFollowing"
    /\ Len(call.arg) = 2
    /\ db.following.has
    /\ db.following.val = call.arg
    /\ db.followers.has
    /\ db.followers.val # <<>>
    /\ db.followers.val # db.following.val
    /\ Cardinality(db.followers_history) = 1

\* the lengths of added, and of removed, summed over a set of entries
RECURSIVE AddedIn(_)
AddedIn(entries) ==
    IF entries = {} THEN 0
    ELSE LET e == CHOOSE x \in entries : TRUE
         IN Len(e.added) + AddedIn(entries \ {e})

RECURSIVE RemovedIn(_)
RemovedIn(entries) ==
    IF entries = {} THEN 0
    ELSE LET e == CHOOSE x \in entries : TRUE
         IN Len(e.removed) + RemovedIn(entries \ {e})

\* C22: getFollowersDelta(deltaDays) returns the number of users added and
\* the number of users removed over exactly the entries whose time is at or
\* after Date.now() minus deltaDays days: 0 and 0 if there is none
C22_DeltaOverWindow ==
    [][call' # call /\ call'.fn = "getFollowersDelta" =>
          LET window == {e \in db.followers_history :
                            e.time >= now - call'.arg * 24 * 3600 * 1000}
          IN /\ call'.res.added = AddedIn(window)
             /\ call'.res.removed = RemovedIn(window)
             /\ window = {} => call'.res = [added |-> 0, removed |-> 0]
      ]_vars

\* C22: getFollowersDelta(1) was called with an entry exactly one day old and
\* an entry of this moment stored: 2 added, 1 removed
C22_EntryAtTheCutoffCounted ==
    /\ call.fn = "getFollowersDelta"
    /\ call.arg = 1
    /\ call.res = [added |-> 2, removed |-> 1]
    /\ Cardinality(db.followers_history) = 2
    /\ \E e \in db.followers_history : e.time = now - 24 * 3600 * 1000
    /\ \E e \in db.followers_history : e.time = now

\* C23: getFollowersHistory(maxEntries) returns stored entries, as many as
\* maxEntries or as there are if these are fewer, every one of them newer
\* than the one after it and than every entry it does not return; for
\* maxEntries = 0 it returns the empty list
C23_NewestEntriesFirst ==
    [][call' # call /\ call'.fn = "getFollowersHistory" =>
          LET entries == call'.res
              stored == db.followers_history
              returned == {entries[i] : i \in 1..Len(entries)}
          IN /\ Len(entries) = IF call'.arg < Cardinality(stored)
                                THEN call'.arg ELSE Cardinality(stored)
             /\ returned \subseteq stored
             /\ \A i, j \in 1..Len(entries) :
                   i < j => entries[i].time > entries[j].time
             /\ \A e \in stored \ returned : \A x \in returned : e.time < x.time
             /\ call'.arg = 0 => entries = <<>>
      ]_vars

\* C23: getFollowersHistory(1) was called with two entries stored and
\* returned the newer one
C23_OneOfTwoReturned ==
    /\ call.fn = "getFollowersHistory"
    /\ call.arg = 1
    /\ Cardinality(db.followers_history) = 2
    /\ Len(call.res) = 1
    /\ call.res[1] \in db.followers_history
    /\ \E e \in db.followers_history : e.time < call.res[1].time

\* C24: getLatestCounts returns a stored row of counts_history that no
\* stored row is newer than, whatever the order in which the rows were put,
\* and null exactly when the store holds no row, as before the first putCounts
\* and after clearAllData
C24_LatestCountsIsNewest ==
    [][call' # call /\ call'.fn = "getLatestCounts" =>
          /\ call'.res.has <=> db.counts_history # {}
          /\ call'.res.has =>
                /\ call'.res.val \in db.counts_history
                /\ \A row \in db.counts_history : row.time <= call'.res.val.time
          /\ hist.nCounts = 0 => ~call'.res.has
      ]_vars

\* C24: the row of an earlier day was put after the row of this day, and
\* getLatestCounts returned the row of this day
C24_OlderRowPutLater ==
    /\ call.fn = "getLatestCounts"
    /\ call.res.has
    /\ call.res.val.time = now
    /\ Cardinality(db.counts_history) = 2
    /\ hist.lastCounts < now

\* the step in which doRefresh of cycle r lands in its catch block
FailedStep(r) ==
    /\ pc[r] \notin {"idle", "putLastError", "refreshUi"}
    /\ pc'[r] = "refreshUi"

\* C25: when a refresh cycle fails at any step, the followers record, the
\* following record, the DeltaEvent table and the CountSnapshot table are, at
\* the end of that cycle, exactly as they were before the cycle started.
C25_FailedCycleLeavesStoresAsBefore ==
    [][\A r \in Runs : FailedStep(r) => db' = run[r].dbBefore]_vars

\* no doRefresh is between its first and its last statement
NoCycleInProgress == \A r \in Runs : pc[r] \in {"idle", "refreshUi"}

\* C26: whenever no refresh cycle is in progress, the set of DeltaEvent
\* timestamps equals the set of CountSnapshot timestamps.
C26_DeltaTimesAreCountTimes ==
    NoCycleInProgress =>
        {e.time : e \in db.followers_history} = {c.time : c \in db.counts_history}

\* the id-set obtained from `ids` by applying delta events in the given order:
\* each event's added ids are added, its removed ids are removed
RECURSIVE Replay(_, _)
Replay(events, ids) ==
    IF events = <<>> THEN ids
    ELSE Replay(Tail(events),
                (ids \cup IdsOf(Head(events).added)) \ IdsOf(Head(events).removed))

\* C27: replaying all stored DeltaEvents in ascending timestamp order from the
\* empty set yields exactly the id-set of the current followers record (the
\* empty set when there is no record, as after clearAllData).
C27_ReplayGivesCurrentFollowers ==
    Replay(Ascending(db.followers_history), {}) = IdsOf(db.followers.val)

\* C27 witness: two refresh cycles have stored a delta event each; the first
\* adds followers and the second removes one
C27_SecondEventRemoves ==
    /\ Cardinality(db.followers_history) = 2
    /\ LET events == Ascending(db.followers_history)
       IN events[1].added # <<>> /\ events[2].removed # <<>>
    /\ db.followers.has

\* C28: once a 'track a different user' reset has completed (clearAllData,
\* then the new custom user id stored), the followers record, the following
\* record, the DeltaEvents and the CountSnapshots hold no data fetched for
\* another user than the one now tracked, even when a refresh cycle for the
\* previous user was in progress at the moment of the reset.
C28_NoDataOfPreviousUser ==
    kv.customUserId # "" => hist.dataFor \subseteq {kv.customUserId}

\* the state of the retry machine of a doFetchJson call: attempting while it
\* sleeps before a request or has a request in flight, waiting-retry while it
\* backs off, succeeded once it has returned, failed once it has thrown
RetryState(f) ==
    CASE f.st \in {"sleep", "inflight"} -> "attempting"
      [] f.st = "backoff" -> "waiting-retry"
      [] f.st = "ok" -> "succeeded"
      [] f.st = "err" -> "failed"
      [] OTHER -> "none"

\* a step of the retry machine of p's call, or the start of another call
RetryMachineStep(p) ==
    LET f == fetch[p]
        g == fetch'[p]
    IN /\ RetryState(f) = "attempting"
          => /\ RetryState(g) \in {"attempting", "waiting-retry", "succeeded", "failed"}
             /\ g.count = f.count
       /\ RetryState(f) = "waiting-retry"
          => /\ RetryState(g) = "attempting"
             /\ g.count < f.count
             /\ g.count >= 0
       /\ RetryState(f) \in {"succeeded", "failed"}
          => /\ RetryState(g) = "attempting"
             /\ g.count = MAX_RETRIES
             /\ g.sends <= 1
             /\ g.out = NoOut

\* C29: every doFetchJson call eventually succeeds or fails, given that every
\* request ends (answer, network failure or timeout); the call moves only
\* from attempting to waiting-retry and back, each round with a smaller
\* remaining budget, and a call that has succeeded or failed stays so: the
\* only step then is the start of another call with the full budget.
C29_CallTerminates ==
    /\ [][\A p \in Procs : fetch'[p] # fetch[p] => RetryMachineStep(p)]_vars
    /\ RetryState(fetch[CallerP]) \in {"attempting", "waiting-retry"}
          ~> RetryState(fetch[CallerP]) \in {"succeeded", "failed"}

\* C29 witness: the call went through every back-off its budget allows and
\* then returned the parsed body
C29_SucceededOnLastAttempt ==
    /\ fetch[CallerP].st = "ok"
    /\ fetch[CallerP].count = 0
    /\ fetch[CallerP].sends = MAX_RETRIES + 1

\* C30: after each click on the refresh button the button is enabled again,
\* whether doRefresh and refreshUi succeed or fail: the button is never left
\* disabled for good, so once no execution of the click handler is left to
\* enable it, the button is not disabled.
C30_RefreshButtonEnabledAgain ==
    (\A r \in Runs : pc[r] = "idle") => ~btn.refresh

====
